---- MODULE Spec2Model ----
(***************************************************************************)
(* A model of mcp-server/conductor_server.py: the tool operations that     *)
(* drive worker sessions through the Conductor app's HTTP API, the output  *)
(* normalizer (strip_ansi), the completion check of wait_for_workers and   *)
(* the multi-instance workspace setup.                                     *)
(*                                                                         *)
(* A text is a sequence of characters, each a one-character string; the    *)
(* two control characters TLA+ strings cannot spell are the tokens ESC     *)
(* (0x1B) and BEL (0x07).                                                  *)
(***************************************************************************)
EXTENDS Integers, Sequences, FiniteSets, TLC

VARIABLES
    pc,               \* position of the call: start, while, for, sleep, done, raised
    tool,             \* the tool operation that was called
    result,           \* the value the call returned (or the exception it raised)
    text,             \* strip_ansi / completion check: the input text
    workers,          \* the listing a call took (its local `workers`)
    k,                \* number of workers of the listing already processed
    results,          \* broadcast_to_workers: worker id -> send result
    outputs,          \* get_all_outputs / wait_for_workers: worker name -> entry
    sent,             \* the send and create requests issued, in order (the manager's view)
    clock,            \* time.time(), in seconds
    start_time,       \* wait_for_workers: its local start_time
    timeout_seconds,  \* wait_for_workers: its argument
    all_done,         \* wait_for_workers: its local all_done
    passes,           \* number of listings the call has asked for so far
    never_idle,       \* ids listed in every pass so far and not classified idle in any
    busy,             \* ids classified not idle in the current pass
    sessions,         \* the manager's sessions (create_worker)
    instances,        \* setup_multi_ue_workspace: results["instances"]
    status,           \* setup_multi_ue_workspace: results["status"]
    num_instances,    \* setup_multi_ue_workspace: its argument
    base_port,        \* setup_multi_ue_workspace: its argument
    i,                \* setup_multi_ue_workspace: the loop variable
    existing,         \* instance numbers whose worktree path exists on disk
    wt_fails,         \* instance numbers for which create_worktree fails
    cfg_fails,        \* instance numbers for which configure_ue_mcp_port fails
    configured        \* instance number -> the port written to its DefaultGame.ini

textVars  == <<text>>
callVars  == <<workers, k, results, outputs, sent>>
waitVars  == <<clock, start_time, timeout_seconds, all_done, passes, never_idle, busy>>
mgrVars   == <<sessions>>
setupVars == <<instances, status, num_instances, base_port, i, existing, wt_fails,
               cfg_fails, configured>>
vars == <<pc, tool, result, textVars, callVars, waitVars, mgrVars, setupVars>>

-----------------------------------------------------------------------------
(* Bounds of the model *)

\* longest text given to strip_ansi
MaxLen == 5
\* most lines of an output given to the completion check
MaxLines == 6

-----------------------------------------------------------------------------
(* Characters and character classes (the ranges of the regular expressions) *)

ESC == "ESC"
BEL == "BEL"
NL  == "\n"
CR  == "\r"

Digits == {"0", "1", "2", "3", "4", "5", "6", "7", "8", "9"}
Upper  == {"A", "B", "C", "D", "E", "F", "G", "H", "I", "J", "K", "L", "M",
           "N", "O", "P", "Q", "R", "S", "T", "U", "V", "W", "X", "Y", "Z"}
Lower  == {"a", "b", "c", "d", "e", "f", "g", "h", "i", "j", "k", "l", "m",
           "n", "o", "p", "q", "r", "s", "t", "u", "v", "w", "x", "y", "z"}

\* [@-Z\\-_]
Esc2Class == {"@"} \cup Upper \cup {"\\", "]", "^", "_"}
\* [0-?]
CsiParam == Digits \cup {":", ";", "<", "=", ">", "?"}
\* [ -/]
CsiInter == {" ", "!", "\"", "#", "$", "%", "&", "'", "(", ")", "*", "+", ",", "-", ".", "/"}
\* [@-~], but for the backquote, which a TLA+ string cannot hold
CsiFinal == {"@"} \cup Upper \cup {"[", "\\", "]", "^", "_"} \cup Lower
               \cup {"{", "|", "}", "~"}
\* [\x00-\x08\x0B\x0C\x0E-\x1F\x7F], of which the model spells ESC and BEL
CtrlClass == {ESC, BEL}
\* what str.strip() removes
Whitespace == {" ", "\t", "\n", "\r"}

-----------------------------------------------------------------------------
(* str methods *)

RECURSIVE LStrip(_)
LStrip(s) ==
    IF s # <<>> /\ Head(s) \in Whitespace THEN LStrip(Tail(s)) ELSE s

RECURSIVE RStrip(_)
RStrip(s) ==
    IF s # <<>> /\ s[Len(s)] \in Whitespace
    THEN RStrip(SubSeq(s, 1, Len(s) - 1)) ELSE s

\* s.strip()
Strip(s) == RStrip(LStrip(s))

\* s.split(sep) for a one-character sep: never empty, "" gives [""]
RECURSIVE Split(_, _)
Split(s, sep) ==
    IF \A n \in 1..Len(s) : s[n] # sep
    THEN <<s>>
    ELSE LET n == CHOOSE n \in 1..Len(s) :
                      s[n] = sep /\ \A m \in 1..(n - 1) : s[m] # sep
         IN  <<SubSeq(s, 1, n - 1)>> \o Split(SubSeq(s, n + 1, Len(s)), sep)

\* sep.join(parts)
RECURSIVE Join(_, _)
Join(parts, sep) ==
    IF parts = <<>> THEN <<>>
    ELSE IF Len(parts) = 1 THEN parts[1]
    ELSE parts[1] \o <<sep>> \o Join(Tail(parts), sep)

\* needle in hay
Contains(hay, needle) ==
    \E n \in 0..(Len(hay) - Len(needle)) :
        SubSeq(hay, n + 1, n + Len(needle)) = needle

\* s.startswith(prefix)
StartsWith(s, prefix) ==
    Len(s) >= Len(prefix) /\ SubSeq(s, 1, Len(prefix)) = prefix

-----------------------------------------------------------------------------
(* strip_ansi *)

\* the first position from n on whose character is not in class
RECURSIVE SkipWhile(_, _, _)
SkipWhile(s, n, class) ==
    IF n <= Len(s) /\ s[n] \in class THEN SkipWhile(s, n + 1, class) ELSE n

\* the first position from n on whose character is c, Len(s) + 1 if none
RECURSIVE FindChar(_, _, _)
FindChar(s, n, c) ==
    IF n <= Len(s) /\ s[n] # c THEN FindChar(s, n + 1, c) ELSE n

\* \x1B(?:[@-Z\\-_]|\[[0-?]*[ -/]*[@-~]) matched at position n: the position
\* after the match, 0 when there is none.  The three classes of the CSI branch
\* are disjoint, so the greedy runs never have to give a character back.
AnsiMatchEnd(s, n) ==
    IF s[n] # ESC \/ n = Len(s) THEN 0
    ELSE IF s[n + 1] \in Esc2Class THEN n + 2
    ELSE IF s[n + 1] = "["
         THEN LET m == SkipWhile(s, SkipWhile(s, n + 2, CsiParam), CsiInter)
              IN  IF m <= Len(s) /\ s[m] \in CsiFinal THEN m + 1 ELSE 0
    ELSE 0

\* \x1B\][^\x07]*\x07 matched at position n
OscMatchEnd(s, n) ==
    IF s[n] # ESC \/ n = Len(s) \/ s[n + 1] # "]" THEN 0
    ELSE LET m == FindChar(s, n + 2, BEL)
         IN  IF m <= Len(s) THEN m + 1 ELSE 0

\* \x1B[PX^_][^\x1B]*\x1B\\ matched at position n
DcsMatchEnd(s, n) ==
    IF s[n] # ESC \/ n = Len(s) \/ s[n + 1] \notin {"P", "X", "^", "_"} THEN 0
    ELSE LET m == FindChar(s, n + 2, ESC)
         IN  IF m < Len(s) /\ s[m + 1] = "\\" THEN m + 2 ELSE 0

\* ansi_escape.sub('', text)
RECURSIVE SubAnsi(_, _)
SubAnsi(s, n) ==
    IF n > Len(s) THEN <<>>
    ELSE LET e == AnsiMatchEnd(s, n)
         IN  IF e = 0 THEN <<s[n]>> \o SubAnsi(s, n + 1) ELSE SubAnsi(s, e)

\* re.sub(OSC, '', text)
RECURSIVE SubOsc(_, _)
SubOsc(s, n) ==
    IF n > Len(s) THEN <<>>
    ELSE LET e == OscMatchEnd(s, n)
         IN  IF e = 0 THEN <<s[n]>> \o SubOsc(s, n + 1) ELSE SubOsc(s, e)

\* re.sub(DCS, '', text)
RECURSIVE SubDcs(_, _)
SubDcs(s, n) ==
    IF n > Len(s) THEN <<>>
    ELSE LET e == DcsMatchEnd(s, n)
         IN  IF e = 0 THEN <<s[n]>> \o SubDcs(s, n + 1) ELSE SubDcs(s, e)

\* re.sub(r'[\x00-\x08\x0B\x0C\x0E-\x1F\x7F]', '', text)
RemoveControl(s) == SelectSeq(s, LAMBDA c : c \notin CtrlClass)

\* the escape and control removal of strip_ansi, before its line handling
RemoveEscapes(s) == RemoveControl(SubDcs(SubOsc(SubAnsi(s, 1), 1), 1))

\* a mutant of KeepAfterCR: always the segment after the last carriage return
KeepAfterCR_LastOnly(line) ==
    LET parts == Split(line, CR) IN parts[Len(parts)]

\* the loop body of strip_ansi for one line
KeepAfterCR(line) ==
    IF \E n \in 1..Len(line) : line[n] = CR
    THEN LET parts == Split(line, CR)
         IN  IF Strip(parts[Len(parts)]) # <<>> THEN parts[Len(parts)]
             ELSE IF Len(parts) > 1 THEN parts[Len(parts) - 1] ELSE <<>>
    ELSE line

\* [KeepAfterCR(line) for line in lines]
MapLines(lines) == [n \in 1..Len(lines) |-> KeepAfterCR(lines[n])]

\* re.sub(r'\n{3,}', '\n\n', text)
RECURSIVE CollapseBlank(_, _)
CollapseBlank(s, n) ==
    IF n > Len(s) THEN <<>>
    ELSE IF s[n] = NL
         THEN LET e == SkipWhile(s, n, {NL})
              IN  (IF e - n >= 3 THEN <<NL, NL>> ELSE SubSeq(s, n, e - 1))
                      \o CollapseBlank(s, e)
         ELSE <<s[n]>> \o CollapseBlank(s, n + 1)

strip_ansi(s) ==
    Strip(CollapseBlank(Join(MapLines(Split(RemoveEscapes(s), NL)), NL), 1))

-----------------------------------------------------------------------------
(* The completion check of wait_for_workers *)

\* "? for shortcuts"
Hint == <<"?", " ", "f", "o", "r", " ", "s", "h", "o", "r", "t", "c", "u", "t", "s">>

\* the number of trailing lines the check reads
WindowLines == 5

\* a mutant of last_lines: the first lines instead of the last
last_lines_head(lines) ==
    SubSeq(lines, 1, IF Len(lines) < WindowLines THEN Len(lines) ELSE WindowLines)

\* lines[-5:]
last_lines(lines) ==
    SubSeq(lines, IF Len(lines) > WindowLines THEN Len(lines) - WindowLines + 1 ELSE 1,
           Len(lines))

\* the test made on one line of the window
is_prompt(line) ==
    LET clean_line == Strip(strip_ansi(line))
    IN  \/ StartsWith(clean_line, <<">", " ">>)
        \/ clean_line = <<">">>
        \/ Contains(clean_line, Hint)

\* for line in last_lines: ... is_done = True; break
RECURSIVE scan_lines(_, _)
scan_lines(window, n) ==
    IF n > Len(window) THEN FALSE
    ELSE IF is_prompt(window[n]) THEN TRUE
    ELSE scan_lines(window, n + 1)

\* is_done, as wait_for_workers computes it from a worker's raw output
is_done(output) ==
    LET lines == Split(Strip(output), NL)
    IN  IF lines # <<>> THEN scan_lines(last_lines(lines), 1) ELSE FALSE

-----------------------------------------------------------------------------
(* Values of the variables a specification does not use *)

None == "none"

TextIdle  == text = <<>>
CallIdle  == workers = <<>> /\ k = 0 /\ results = <<>> /\ outputs = <<>> /\ sent = <<>>
WaitIdle  == /\ clock = 0 /\ start_time = 0 /\ timeout_seconds = 0
             /\ all_done = FALSE /\ passes = 0 /\ never_idle = {} /\ busy = {}
MgrIdle   == sessions = <<>>
SetupIdle == /\ instances = <<>> /\ status = None /\ num_instances = 0
             /\ base_port = 0 /\ i = 0
             /\ existing = {} /\ wt_fails = {} /\ cfg_fails = {} /\ configured = <<>>

\* all sequences over S of length at most n
SeqsUpTo(S, n) == UNION {[1..m -> S] : m \in 0..n}

-----------------------------------------------------------------------------
(* strip_ansi applied to every text of at most MaxLen characters *)

NormChars == {"x", ">", " ", NL, CR, ESC, "["}

NormInit ==
    /\ pc = "start" /\ tool = "strip_ansi" /\ result = None
    /\ text \in SeqsUpTo(NormChars, MaxLen)
    /\ CallIdle /\ WaitIdle /\ MgrIdle /\ SetupIdle

StripAnsi ==
    /\ pc = "start" /\ tool = "strip_ansi"
    /\ result' = strip_ansi(text)
    /\ pc' = "done"
    /\ UNCHANGED <<tool, textVars, callVars, waitVars, mgrVars, setupVars>>

NormNext == StripAnsi

NormSpec == NormInit /\ [][NormNext]_vars

-----------------------------------------------------------------------------
(* The completion check applied to outputs of at most MaxLines lines *)

LineSamples ==
    { <<>>, <<"x">>, <<">", " ", "x">>, <<"x", CR, ">">>, Hint }

IdleInit ==
    /\ pc = "start" /\ tool = "is_done" /\ result = None
    /\ \E ls \in SeqsUpTo(LineSamples, MaxLines) : text = Join(ls, NL)
    /\ CallIdle /\ WaitIdle /\ MgrIdle /\ SetupIdle

CheckDone ==
    /\ pc = "start" /\ tool = "is_done"
    /\ result' = is_done(text)
    /\ pc' = "done"
    /\ UNCHANGED <<tool, textVars, callVars, waitVars, mgrVars, setupVars>>

IdleNext == CheckDone

IdleSpec == IdleInit /\ [][IdleNext]_vars

-----------------------------------------------------------------------------
(* The manager's replies and api_request *)

\* most sessions the manager holds when a call other than wait_for_workers starts
MaxSessions == 3

Names == {"a", "b"}
Roles == {"Worker", "Conductor"}

\* how the manager answers one request: with a JSON object, not at all (the
\* connection is refused), not within the 10 seconds urlopen waits for the
\* response, or with a body that is not JSON
Replies == {"ok", "unreachable", "timeout", "bad_json"}

\* the sessions the manager can hold: ids are its own and unique
Listings(n) ==
    UNION { { [x \in 1..m |-> [id |-> x, name |-> f[x].name, role |-> f[x].role]] :
                  f \in [1..m -> [name : Names, role : Roles]] } : m \in 0..n }

\* the body of GET /sessions
SessionsBody == [sessions |-> sessions]

\* api_request: the parsed body, an error object for URLError and
\* JSONDecodeError; the socket timeout urlopen raises while it waits for the
\* response is no URLError and leaves api_request as an exception
api_request(reply, body) ==
    CASE reply = "ok"          -> body
      [] reply = "unreachable" -> [error |-> "Failed to connect to Claude Conductor app"]
      [] reply = "bad_json"    -> [error |-> "Invalid response from Claude Conductor app"]
      [] reply = "timeout"     -> [raised |-> "TimeoutError"]

\* "error" in r
HasError(r) == "error" \in DOMAIN r

\* the call r came from ended with an exception
Raised(r) == "raised" \in DOMAIN r

\* [s for s in sessions_result.get("sessions", []) if s.get("role") == "Worker"]
WorkersOf(r) == SelectSeq(r.sessions, LAMBDA s : s.role = "Worker")

\* d[key] = value
Put(d, key, value) ==
    [x \in DOMAIN d \cup {key} |-> IF x = key THEN value ELSE d[x]]

\* the ids of a listing, in its order
Ids(ws) == [n \in 1..Len(ws) |-> ws[n].id]

ToolInit(t) ==
    /\ pc = "start" /\ tool = t /\ result = None
    /\ TextIdle /\ CallIdle /\ SetupIdle

\* a call ends: with the value it returns, or with the exception r carries
Return(r) ==
    /\ pc' = IF Raised(r) THEN "raised" ELSE "done"
    /\ result' = r

-----------------------------------------------------------------------------
(* The tools that are one request: create_worker is modelled further down *)

SimpleTools == {"send_to_worker", "list_workers", "terminate_worker", "get_worker_output"}

SimpleInit ==
    /\ \E t \in SimpleTools : ToolInit(t)
    /\ WaitIdle
    /\ sessions \in Listings(MaxSessions)

send_to_worker(reply) == api_request(reply, [status |-> "message_sent"])

\* the output field is the text extract_claude_response makes of the body's;
\* the model keeps the worker's id in its place
get_worker_output(worker_id, reply) == api_request(reply, [output |-> worker_id])

SendToWorker ==
    /\ pc = "start" /\ tool = "send_to_worker"
    /\ \E worker_id \in 1..MaxSessions, reply \in Replies :
           /\ sent' = Append(sent, [id |-> worker_id, reply |-> reply])
           /\ Return(send_to_worker(reply))
    /\ UNCHANGED <<tool, textVars, workers, k, results, outputs, waitVars, mgrVars, setupVars>>

ListWorkers ==
    /\ pc = "start" /\ tool = "list_workers"
    /\ \E reply \in Replies : Return(api_request(reply, SessionsBody))
    /\ UNCHANGED <<tool, textVars, callVars, waitVars, mgrVars, setupVars>>

TerminateWorker ==
    /\ pc = "start" /\ tool = "terminate_worker"
    /\ \E worker_id \in 1..MaxSessions, reply \in Replies :
           Return(api_request(reply, [status |-> "terminated"]))
    /\ UNCHANGED <<tool, textVars, callVars, waitVars, mgrVars, setupVars>>

GetWorkerOutput ==
    /\ pc = "start" /\ tool = "get_worker_output"
    /\ \E worker_id \in 1..MaxSessions, reply \in Replies :
           Return(get_worker_output(worker_id, reply))
    /\ UNCHANGED <<tool, textVars, callVars, waitVars, mgrVars, setupVars>>

SimpleNext == SendToWorker \/ ListWorkers \/ TerminateWorker \/ GetWorkerOutput

-----------------------------------------------------------------------------
(* broadcast_to_workers *)

BroadcastInit ==
    /\ ToolInit("broadcast_to_workers")
    /\ WaitIdle
    /\ sessions \in Listings(MaxSessions)

\* sessions_result = api_request("GET", "/sessions") and what follows it, up to
\* the loop
BroadcastList ==
    /\ pc = "start" /\ tool = "broadcast_to_workers"
    /\ \E reply \in Replies :
           LET sessions_result == api_request(reply, SessionsBody)
           IN  IF Raised(sessions_result) \/ HasError(sessions_result)
               THEN Return(sessions_result) /\ UNCHANGED <<workers, passes>>
               ELSE /\ workers' = WorkersOf(sessions_result)
                    /\ passes' = 1
                    /\ pc' = "for"
                    /\ UNCHANGED result
    /\ UNCHANGED <<tool, textVars, k, results, outputs, sent, clock, start_time,
                   timeout_seconds, all_done, never_idle, busy, mgrVars, setupVars>>

\* one turn of `for worker in workers`
BroadcastSend ==
    /\ pc = "for" /\ tool = "broadcast_to_workers"
    /\ k < Len(workers)
    /\ \E reply \in Replies :
           LET worker_id == workers[k + 1].id
               r == send_to_worker(reply)
           IN  /\ sent' = Append(sent, [id |-> worker_id, reply |-> reply])
               /\ IF Raised(r)
                  THEN Return(r) /\ UNCHANGED <<k, results>>
                  ELSE /\ results' = Put(results, worker_id, r)
                       /\ k' = k + 1
                       /\ UNCHANGED <<pc, result>>
    /\ UNCHANGED <<tool, textVars, workers, outputs, waitVars, mgrVars, setupVars>>

BroadcastReturn ==
    /\ pc = "for" /\ tool = "broadcast_to_workers"
    /\ k = Len(workers)
    /\ Return([broadcast_message |-> "message",
               results |-> results,
               workers_count |-> Cardinality(DOMAIN results)])
    /\ UNCHANGED <<tool, textVars, callVars, waitVars, mgrVars, setupVars>>

BroadcastNext == BroadcastList \/ BroadcastSend \/ BroadcastReturn

BroadcastSpec == BroadcastInit /\ [][BroadcastNext]_vars

-----------------------------------------------------------------------------
(* get_all_outputs *)

OutputsInit ==
    /\ ToolInit("get_all_outputs")
    /\ WaitIdle
    /\ sessions \in Listings(MaxSessions)

OutputsList ==
    /\ pc = "start" /\ tool = "get_all_outputs"
    /\ \E reply \in Replies :
           LET sessions_result == api_request(reply, SessionsBody)
           IN  IF Raised(sessions_result) \/ HasError(sessions_result)
               THEN Return(sessions_result) /\ UNCHANGED <<workers, passes>>
               ELSE /\ workers' = WorkersOf(sessions_result)
                    /\ passes' = 1
                    /\ pc' = "for"
                    /\ UNCHANGED result
    /\ UNCHANGED <<tool, textVars, k, results, outputs, sent, clock, start_time,
                   timeout_seconds, all_done, never_idle, busy, mgrVars, setupVars>>

\* one turn of `for worker in workers`
OutputsWorker ==
    /\ pc = "for" /\ tool = "get_all_outputs"
    /\ k < Len(workers)
    /\ \E reply \in Replies :
           LET worker == workers[k + 1]
               output_result == get_worker_output(worker.id, reply)
           IN  IF Raised(output_result)
               THEN Return(output_result) /\ UNCHANGED <<k, outputs>>
               ELSE /\ outputs' = Put(outputs, worker.name,
                                      [id |-> worker.id,
                                       output |-> IF "output" \in DOMAIN output_result
                                                  THEN output_result.output ELSE 0])
                    /\ k' = k + 1
                    /\ UNCHANGED <<pc, result>>
    /\ UNCHANGED <<tool, textVars, workers, results, sent, waitVars, mgrVars, setupVars>>

OutputsReturn ==
    /\ pc = "for" /\ tool = "get_all_outputs"
    /\ k = Len(workers)
    /\ Return([outputs |-> outputs, count |-> Cardinality(DOMAIN outputs)])
    /\ UNCHANGED <<tool, textVars, callVars, waitVars, mgrVars, setupVars>>

OutputsNext == OutputsList \/ OutputsWorker \/ OutputsReturn

OutputsSpec == OutputsInit /\ [][OutputsNext]_vars

-----------------------------------------------------------------------------
(* wait_for_workers *)

\* most sessions the manager holds when wait_for_workers starts
MaxWaitSessions == 2
\* largest timeout_seconds wait_for_workers is called with
MaxTimeout == 7

check_interval == 3

\* the clock never passes this in a call that observes its deadline
MaxClock == MaxTimeout + 3 * check_interval

\* what a worker's output can be when it is fetched: nothing yet, a task in
\* progress, a prompt line after the task's output
WaitOutputs ==
    { <<>>, <<"x">>, <<"x", NL, ">", " ", "x">> }

WaitInit ==
    /\ ToolInit("wait_for_workers")
    /\ sessions \in Listings(MaxWaitSessions)
    /\ clock = 0 /\ start_time = 0 /\ all_done = FALSE /\ passes = 0
    /\ never_idle = {} /\ busy = {}
    /\ timeout_seconds \in (0 - 1)..MaxTimeout

\* a mutant of Expired: the loop has no deadline
Expired_Never(now) == FALSE

\* not (time.time() - start_time < timeout_seconds)
Expired(now) == ~(now - start_time < timeout_seconds)

\* a mutant of Relisted: the listing of the first pass is kept
Relisted_Once(sessions_result) ==
    IF passes = 0 THEN WorkersOf(sessions_result) ELSE workers

\* the workers of a pass
Relisted(sessions_result) == WorkersOf(sessions_result)

\* start_time = time.time()
WaitEnter ==
    /\ pc = "start" /\ tool = "wait_for_workers"
    /\ start_time' = clock
    /\ pc' = "while"
    /\ UNCHANGED <<tool, result, textVars, callVars, clock, timeout_seconds,
                   all_done, passes, never_idle, busy, mgrVars, setupVars>>

\* the loop's test and, when it lets the pass start, the pass up to its
\* `for worker in workers`
WaitList ==
    /\ pc = "while" /\ tool = "wait_for_workers"
    /\ ~Expired(clock)
    /\ passes' = passes + 1
    /\ \E reply \in Replies :
           LET sessions_result == api_request(reply, SessionsBody)
           IN  IF Raised(sessions_result) \/ HasError(sessions_result)
               THEN /\ Return(sessions_result)
                    /\ never_idle' = {}
                    /\ UNCHANGED <<workers, k, outputs, all_done, busy>>
               ELSE IF Relisted(sessions_result) = <<>>
               THEN /\ Return([error |-> "No workers found"])
                    /\ workers' = <<>>
                    /\ never_idle' = {}
                    /\ UNCHANGED <<k, outputs, all_done, busy>>
               ELSE /\ workers' = Relisted(sessions_result)
                    /\ never_idle' =
                           LET ids == {workers'[n].id : n \in 1..Len(workers')}
                           IN  IF passes = 0 THEN ids ELSE never_idle \cap ids
                    /\ all_done' = TRUE
                    /\ busy' = {}
                    /\ outputs' = <<>>
                    /\ k' = 0
                    /\ pc' = "for"
                    /\ UNCHANGED result
    /\ UNCHANGED <<tool, textVars, results, sent, clock, start_time, timeout_seconds,
                   mgrVars, setupVars>>

\* one turn of `for worker in workers`
WaitWorker ==
    /\ pc = "for" /\ tool = "wait_for_workers"
    /\ k < Len(workers)
    /\ \E reply \in Replies, text_out \in WaitOutputs :
           LET worker == workers[k + 1]
               output_result == api_request(reply, [output |-> text_out])
               output == IF "output" \in DOMAIN output_result
                         THEN output_result.output ELSE <<>>
           IN  IF Raised(output_result)
               THEN Return(output_result)
                    /\ UNCHANGED <<k, outputs, all_done, never_idle, busy>>
               ELSE /\ outputs' = Put(outputs, worker.name,
                                      [id |-> worker.id, done |-> is_done(output)])
                    /\ all_done' = (all_done /\ is_done(output))
                    /\ never_idle' = IF is_done(output)
                                     THEN never_idle \ {worker.id} ELSE never_idle
                    /\ busy' = IF is_done(output) THEN busy ELSE busy \cup {worker.id}
                    /\ k' = k + 1
                    /\ UNCHANGED <<pc, result>>
    /\ UNCHANGED <<tool, textVars, workers, results, sent, clock, start_time,
                   timeout_seconds, passes, mgrVars, setupVars>>

\* the end of a pass: `if all_done: return ...`, else on to the sleep
WaitPassEnd ==
    /\ pc = "for" /\ tool = "wait_for_workers"
    /\ k = Len(workers)
    /\ IF all_done
       THEN Return([status |-> "all_complete",
                    outputs |-> outputs,
                    elapsed_seconds |-> clock - start_time])
       ELSE pc' = "sleep" /\ UNCHANGED result
    /\ UNCHANGED <<tool, textVars, callVars, waitVars, mgrVars, setupVars>>

\* time.sleep(check_interval)
WaitSleep ==
    /\ pc = "sleep" /\ tool = "wait_for_workers"
    /\ clock + check_interval <= MaxClock
    /\ clock' = clock + check_interval
    /\ pc' = "while"
    /\ UNCHANGED <<tool, result, textVars, callVars, start_time, timeout_seconds,
                   all_done, passes, never_idle, busy, mgrVars, setupVars>>

\* the loop's test fails: the timeout result, built from the outputs of the
\* last pass; `outputs` is unbound when there was no pass
WaitTimeout ==
    /\ pc = "while" /\ tool = "wait_for_workers"
    /\ Expired(clock)
    /\ IF passes = 0
       THEN Return([raised |-> "UnboundLocalError"])
       ELSE Return([status |-> "timeout",
                    outputs |-> outputs,
                    elapsed_seconds |-> timeout_seconds,
                    message |-> "Some workers did not complete in time"])
    /\ UNCHANGED <<tool, textVars, callVars, waitVars, mgrVars, setupVars>>

\* while the call sleeps a session ends and leaves the manager's list
SessionEnds ==
    /\ pc = "sleep" /\ tool = "wait_for_workers"
    /\ \E n \in 1..Len(sessions) :
           sessions' = [m \in 1..(Len(sessions) - 1) |->
                            IF m < n THEN sessions[m] ELSE sessions[m + 1]]
    /\ UNCHANGED <<pc, tool, result, textVars, callVars, waitVars, setupVars>>

WaitStep ==
    WaitEnter \/ WaitList \/ WaitWorker \/ WaitPassEnd \/ WaitSleep \/ WaitTimeout

WaitNext == WaitStep \/ SessionEnds

WaitSpec == WaitInit /\ [][WaitNext]_vars

-----------------------------------------------------------------------------
(* create_worker, called again and again while workers come and go *)

\* the value of mcp_port when create_worker is called without one
DefaultPort == 55558

\* the ports create_worker is called with when it is given one
GivenPorts == {55558, 55559}

\* the ports of the manager's sessions
ActivePorts == {sessions[n].mcp_port : n \in 1..Len(sessions)}

\* the id the manager gives its next session
NextId ==
    IF sessions = <<>> THEN 1
    ELSE 1 + CHOOSE x \in {sessions[n].id : n \in 1..Len(sessions)} :
                 \A n \in 1..Len(sessions) : sessions[n].id <= x

CreateInit ==
    /\ ToolInit("create_worker") /\ WaitIdle
    /\ sessions = <<>>

\* create_worker(name, directory, mcp_port): one POST /sessions carrying
\* mcp_port, which is DefaultPort when the caller gave none.  The manager is not
\* part of these sources: asked for a port one of its sessions holds, it may
\* refuse or accept.
CreateWorker ==
    /\ pc = "start" /\ tool = "create_worker"
    /\ Len(sessions) < MaxSessions
    /\ \E name \in Names, given \in BOOLEAN, port \in GivenPorts, reply \in Replies,
          accept \in BOOLEAN :
           LET mcp_port == IF given THEN port ELSE DefaultPort
               taken == mcp_port \in ActivePorts
               made == reply = "ok" /\ (accept \/ ~taken)
               session == [id |-> NextId, name |-> name, role |-> "Worker",
                           mcp_port |-> mcp_port, given |-> given]
           IN  /\ given \/ port = DefaultPort
               /\ accept \/ taken
               /\ sent' = Append(sent, [mcp_port |-> mcp_port, given |-> given,
                                        taken |-> taken])
               /\ sessions' = IF made THEN Append(sessions, session) ELSE sessions
               /\ Return(api_request(reply,
                      IF made THEN [id |-> session.id, status |-> "created"]
                      ELSE [error |-> "Port in use"]))
    /\ UNCHANGED <<tool, textVars, workers, k, results, outputs, waitVars, setupVars>>

\* the server takes the next create_worker call
CreateAgain ==
    /\ pc \in {"done", "raised"} /\ tool = "create_worker"
    /\ Len(sent) < MaxSessions + 1
    /\ pc' = "start"
    /\ result' = None
    /\ UNCHANGED <<tool, textVars, callVars, waitVars, mgrVars, setupVars>>

\* a worker is terminated and leaves the manager's list
WorkerLeaves ==
    /\ tool = "create_worker"
    /\ \E n \in 1..Len(sessions) :
           sessions' = [m \in 1..(Len(sessions) - 1) |->
                            IF m < n THEN sessions[m] ELSE sessions[m + 1]]
    /\ UNCHANGED <<pc, tool, result, textVars, callVars, waitVars, setupVars>>

CreateNext == CreateWorker \/ CreateAgain \/ WorkerLeaves

CreateSpec == CreateInit /\ [][CreateNext]_vars

-----------------------------------------------------------------------------
(* setup_multi_ue_workspace *)

\* largest num_instances
MaxInstances == 3

BasePorts == {1024, 55557}

\* main_project_dir, as os.path.join(parent_dir, project_name)
MainPath == <<"parent_dir", "project_name">>

\* os.path.join(parent_dir, f"{project_name}-wt{i}")
WorktreePath(n) == <<"parent_dir", "project_name", "-wt", n>>

\* a mutant of InstancePort: off by one
InstancePort_Next(n) == base_port + n

\* port = base_port + (i - 1)
InstancePort(n) == base_port + (n - 1)

\* configure_ue_mcp_port(project_dir, port), for instance n: every exception
\* comes back as an error object
configure_ue_mcp_port(n, port) ==
    IF n \in cfg_fails THEN [error |-> "configure failed"]
    ELSE [status |-> "configured", port |-> port]

\* create_worktree(main_project_dir, worktree_path, branch_name), for instance n
create_worktree(n) ==
    IF n \in existing THEN [error |-> "Path already exists"]
    ELSE IF n \in wt_fails THEN [error |-> "Failed to create worktree"]
    ELSE [status |-> "created", path |-> WorktreePath(n)]

\* the DefaultGame.ini files after configure_ue_mcp_port returned r for n
Written(n, r) == IF HasError(r) THEN configured ELSE Put(configured, n, r.port)

SetupInit ==
    /\ pc = "start" /\ tool = "setup_multi_ue_workspace" /\ result = None
    /\ TextIdle /\ CallIdle /\ WaitIdle /\ MgrIdle
    /\ instances = <<>> /\ status = None /\ i = 0 /\ configured = <<>>
    /\ num_instances \in 0..MaxInstances
    /\ base_port \in BasePorts
    /\ existing \in SUBSET (2..MaxInstances)
    /\ wt_fails \in SUBSET (2..MaxInstances)
    /\ cfg_fails \in SUBSET (1..MaxInstances)

\* the results object and instance 1, the main project
SetupMain ==
    /\ pc = "start" /\ tool = "setup_multi_ue_workspace"
    /\ LET main_result == configure_ue_mcp_port(1, base_port)
       IN  /\ instances' = <<[name |-> "main", path |-> MainPath, port |-> base_port,
                              config_result |-> main_result]>>
           /\ configured' = Written(1, main_result)
    /\ status' = "success"
    /\ i' = 2
    /\ pc' = "for"
    /\ UNCHANGED <<tool, result, textVars, callVars, waitVars, mgrVars, num_instances,
                   base_port, existing, wt_fails, cfg_fails>>

\* one turn of `for i in range(2, num_instances + 1)`
SetupInstance ==
    /\ pc = "for" /\ tool = "setup_multi_ue_workspace"
    /\ i <= num_instances
    /\ LET port == InstancePort(i)
           instance_result == [name |-> <<"project_name", "-wt", i>>,
                               path |-> WorktreePath(i),
                               port |-> port,
                               branch |-> <<"parallel-", i>>]
           wt_result == create_worktree(i)
           config_result == configure_ue_mcp_port(i, port)
       IN  IF i \notin existing /\ HasError(wt_result)
           THEN /\ status' = "partial"
                /\ instances' = Append(instances,
                       [worktree_result |-> wt_result] @@ instance_result)
                /\ UNCHANGED <<existing, configured>>
           ELSE /\ instances' = Append(instances,
                       (IF i \notin existing
                        THEN [worktree_result |-> wt_result] ELSE <<>>) @@
                       [config_result |-> config_result] @@ instance_result)
                /\ existing' = existing \cup {i}
                /\ configured' = Written(i, config_result)
                /\ UNCHANGED status
    /\ i' = i + 1
    /\ UNCHANGED <<pc, tool, result, textVars, callVars, waitVars, mgrVars, num_instances,
                   base_port, wt_fails, cfg_fails>>

\* return results
SetupReturn ==
    /\ pc = "for" /\ tool = "setup_multi_ue_workspace"
    /\ i > num_instances
    /\ Return([instances |-> instances, status |-> status])
    /\ UNCHANGED <<tool, textVars, callVars, waitVars, mgrVars, setupVars>>

SetupNext == SetupMain \/ SetupInstance \/ SetupReturn

SetupSpec == SetupInit /\ [][SetupNext]_vars

-----------------------------------------------------------------------------
(* The worktree and port operations as tools of their own *)

FsTools == {"list_worktrees", "create_worktree", "remove_worktree", "configure_ue_mcp_port"}

\* how a git command ends: with return code 0, with another, by
\* subprocess.TimeoutExpired, by any other exception (a missing directory)
GitOutcomes == {"ok", "failed", "timeout", "exception"}

\* what the try blocks of the worktree operations make of a command's end
GitResult(outcome, done) ==
    CASE outcome = "ok"        -> done
      [] outcome = "failed"    -> [error |-> "Git command failed"]
      [] outcome = "timeout"   -> [error |-> "Git command timed out"]
      [] outcome = "exception" -> [error |-> "str(e)"]

FsInit ==
    /\ \E t \in FsTools : pc = "start" /\ tool = t /\ result = None
    /\ TextIdle /\ CallIdle /\ WaitIdle /\ MgrIdle
    /\ instances = <<>> /\ status = None /\ i = 0 /\ configured = <<>>
    /\ num_instances = 0
    /\ base_port \in BasePorts
    /\ existing \in SUBSET {2}
    /\ wt_fails \in SUBSET {2}
    /\ cfg_fails \in SUBSET {1}

ListWorktrees ==
    /\ pc = "start" /\ tool = "list_worktrees"
    /\ \E outcome \in GitOutcomes :
           Return(GitResult(outcome,
                      [worktrees |-> <<[path |-> MainPath]>>
                                         \o [n \in 1..Cardinality(existing) |->
                                                [path |-> WorktreePath(2)]],
                       count |-> 1 + Cardinality(existing)]))
    /\ UNCHANGED <<tool, textVars, callVars, waitVars, mgrVars, setupVars>>

CreateWorktree ==
    /\ pc = "start" /\ tool = "create_worktree"
    /\ \E outcome \in GitOutcomes \ {"failed"} :
           LET r == GitResult(outcome, create_worktree(2))
           IN  /\ Return(r)
               /\ existing' = IF HasError(r) THEN existing ELSE existing \cup {2}
    /\ UNCHANGED <<tool, textVars, callVars, waitVars, mgrVars, instances, status,
                   num_instances, base_port, i, wt_fails, cfg_fails, configured>>

RemoveWorktree ==
    /\ pc = "start" /\ tool = "remove_worktree"
    /\ \E outcome \in GitOutcomes :
           LET r == GitResult(IF 2 \in existing \/ outcome # "ok" THEN outcome ELSE "failed",
                              [status |-> "removed", path |-> WorktreePath(2)])
           IN  /\ Return(r)
               /\ existing' = IF HasError(r) THEN existing ELSE existing \ {2}
    /\ UNCHANGED <<tool, textVars, callVars, waitVars, mgrVars, instances, status,
                   num_instances, base_port, i, wt_fails, cfg_fails, configured>>

ConfigurePort ==
    /\ pc = "start" /\ tool = "configure_ue_mcp_port"
    /\ LET r == configure_ue_mcp_port(1, base_port)
       IN  /\ Return(r)
           /\ configured' = Written(1, r)
    /\ UNCHANGED <<tool, textVars, callVars, waitVars, mgrVars, instances, status,
                   num_instances, base_port, i, existing, wt_fails, cfg_fails>>

FsNext == ListWorktrees \/ CreateWorktree \/ RemoveWorktree \/ ConfigurePort

-----------------------------------------------------------------------------
(* The server: one of its tools is called *)

Init ==
    \/ SimpleInit
    \/ BroadcastInit
    \/ OutputsInit
    \/ WaitInit
    \/ CreateInit
    \/ SetupInit
    \/ FsInit

Next ==
    \/ SimpleNext
    \/ BroadcastNext
    \/ OutputsNext
    \/ WaitNext
    \/ CreateNext
    \/ SetupNext
    \/ FsNext

Spec == Init /\ [][Next]_vars

-----------------------------------------------------------------------------
(* C1: no tool operation ends with an exception *)

\* C1: every tool operation, for every argument and every reply of the manager,
\* ends by returning a result object; none ends by raising an exception.
C1_Original == pc # "raised"

-----------------------------------------------------------------------------
(* C2: broadcast_to_workers reaches every listed worker *)

\* C2: once broadcast_to_workers has its listing, it ends by returning; a send
\* was issued for each listed worker, in the listing's order, whichever sends
\* failed; and the result holds one entry per listed worker, which is what that
\* worker's own send came to.
C2_Original ==
    (tool = "broadcast_to_workers" /\ pc \in {"done", "raised"} /\ passes = 1) =>
        /\ pc = "done"
        /\ [n \in 1..Len(sent) |-> sent[n].id] = Ids(workers)
        /\ DOMAIN result.results = {workers[n].id : n \in 1..Len(workers)}
        /\ result.workers_count = Len(workers)
        /\ \A n \in 1..Len(workers) :
               result.results[workers[n].id] = send_to_worker(sent[n].reply)

-----------------------------------------------------------------------------
(* C6: one output entry per listed worker *)

\* C6: the mapping get_all_outputs returns holds one entry for each worker of
\* the listing it read, workers of the same name included: the count is the
\* number of listed workers and every listed worker has its entry.
C6_Original ==
    (tool = "get_all_outputs" /\ pc = "done" /\ passes = 1) =>
        /\ result.count = Len(workers)
        /\ Cardinality(DOMAIN result.outputs) = Len(workers)
        /\ \A n \in 1..Len(workers) :
               \E name \in DOMAIN result.outputs :
                   result.outputs[name].id = workers[n].id

-----------------------------------------------------------------------------
(* C7: the port of a worker created without one *)

\* C7: a create_worker call made without a port asks for a port no active
\* session holds (the next free one), and no two active workers created without
\* an explicit port hold the same port.
C7_Original ==
    tool = "create_worker" =>
        /\ \A n \in 1..Len(sent) : ~sent[n].given => ~sent[n].taken
        /\ \A n, m \in 1..Len(sessions) :
               (n # m /\ ~sessions[n].given /\ ~sessions[m].given) =>
                   sessions[n].mcp_port # sessions[m].mcp_port

-----------------------------------------------------------------------------
(* C8: the status setup_multi_ue_workspace reports *)

\* creating or configuring the instance failed
InstanceFailed(inst) ==
    \/ "worktree_result" \in DOMAIN inst /\ HasError(inst.worktree_result)
    \/ "config_result" \in DOMAIN inst /\ HasError(inst.config_result)

\* C8: the status is partial whenever creating or configuring an instance, the
\* main project included, failed and success only when none did; every
\* instance is listed with its own outcome, whichever failed before it.
C8_Original ==
    (tool = "setup_multi_ue_workspace" /\ pc = "done") =>
        /\ result.status = "partial" <=>
               \E n \in 1..Len(result.instances) : InstanceFailed(result.instances[n])
        /\ result.status \in {"partial", "success"}
        /\ \A n \in 1..num_instances : n <= Len(result.instances)

-----------------------------------------------------------------------------
(* C9: the ports and paths setup_multi_ue_workspace assigns *)

\* the instances are those of ports base_port, base_port + 1, ... in that
\* order, and no two of them share a path
PortsInOrder(insts) ==
    /\ \A n \in 1..Len(insts) : insts[n].port = base_port + n - 1
    /\ \A n, m \in 1..Len(insts) : n < m => insts[n].port < insts[m].port
    /\ \A n, m \in 1..Len(insts) : n # m => insts[n].path # insts[m].path

\* C9 as claimed: for every base port and every instance count n the result
\* has n instances, of ports base, base + 1, ..., base + n - 1 in that order,
\* and no two share a working-copy path.
C9_Original ==
    (tool = "setup_multi_ue_workspace" /\ pc = "done") =>
        /\ Len(result.instances) = num_instances
        /\ PortsInOrder(result.instances)

\* C9 as amended: for every base port and every instance count n >= 1 the
\* result has n instances, of ports base, base + 1, ..., base + n - 1 in that
\* order, and no two share a working-copy path; for n <= 0 the result still has
\* one instance, the main project with the base port.
C9_Theorem ==
    (tool = "setup_multi_ue_workspace" /\ pc = "done") =>
        /\ Len(result.instances) = (IF num_instances < 1 THEN 1 ELSE num_instances)
        /\ PortsInOrder(result.instances)
        /\ result.instances[1].path = MainPath

\* three instances set up, the second of which could not be created
C9_Witness ==
    /\ tool = "setup_multi_ue_workspace" /\ pc = "done"
    /\ num_instances >= 3
    /\ Len(result.instances) = num_instances
    /\ InstanceFailed(result.instances[2])
    /\ result.instances[3].port = base_port + 2

-----------------------------------------------------------------------------
(* C3: wait_for_workers observes its deadline *)

\* while the call runs it is less than one polling interval past its timeout,
\* and with a worker that was listed in every pass and showed no prompt line in
\* any, it returns the timeout result no later than that
C3_InTime ==
    tool = "wait_for_workers" =>
        /\ pc \in {"while", "for", "sleep"} =>
               clock - start_time < timeout_seconds + check_interval
        /\ (pc = "done" /\ never_idle # {}) =>
               /\ "status" \in DOMAIN result
               /\ result.status = "timeout"
               /\ clock - start_time <= timeout_seconds + check_interval

\* the call never stops short of its end: until it has returned (or a request
\* of it has timed out, which the claim leaves aside by taking requests as
\* instantaneous) it has a step to take: the loop's test sends it to a pass or
\* to the timeout result, a pass goes through its listing, and the sleep after
\* a pass is never held back; with the bound on the clock above and k counting
\* up to the length of the listing, every call ends
C3_Progress ==
    (tool = "wait_for_workers" /\ pc \notin {"done", "raised"}) =>
        /\ pc \in {"start", "while", "for", "sleep"}
        /\ pc = "start" => ENABLED WaitEnter
        /\ pc = "while" => ENABLED (WaitList \/ WaitTimeout)
        /\ pc = "for" => k <= Len(workers)
        /\ pc = "sleep" => ENABLED WaitSleep

\* C3: wait_for_workers called with timeout T while a listed worker never shows
\* a prompt line always returns, with status timeout, no later than T plus one
\* polling interval after it started (sleeps counted, requests instantaneous).
C3_Theorem == C3_InTime /\ C3_Progress

\* the timeout result, returned after more than one pass and after the timeout
\* has passed, with a worker that never showed a prompt line
C3_Witness ==
    /\ tool = "wait_for_workers" /\ pc = "done"
    /\ never_idle # {}
    /\ passes >= 2
    /\ "status" \in DOMAIN result
    /\ result.status = "timeout"
    /\ clock - start_time > timeout_seconds

-----------------------------------------------------------------------------
(* C4: the passes of wait_for_workers *)

\* C4: every pass works on the listing of that pass, which is never empty (an
\* empty listing returns the 'no workers' error at once); a pass in which every
\* listed worker is classified idle returns all_complete without a sleep, so
\* the call sleeps only after a pass with a worker classified not idle; and
\* all_complete is returned only at the end of a pass none of whose workers was
\* classified not idle.
C4_Theorem ==
    tool = "wait_for_workers" =>
        /\ pc \in {"for", "sleep"} =>
               /\ workers # <<>>
               /\ pc = "for" => workers = WorkersOf(SessionsBody)
               /\ busy \subseteq {workers[n].id : n \in 1..Len(workers)}
        /\ pc = "for" => (all_done <=> busy = {})
        /\ pc = "sleep" => busy # {}
        /\ (pc = "done" /\ "status" \in DOMAIN result /\ result.status = "all_complete") =>
               /\ busy = {}
               /\ workers # <<>>
               /\ k = Len(workers)
               /\ workers = WorkersOf(SessionsBody)
               /\ result.elapsed_seconds = clock - start_time
        /\ (pc = "done" /\ HasError(result) /\ result.error = "No workers found") =>
               WorkersOf(SessionsBody) = <<>>

\* all_complete returned by a later pass than the first, after a sleep
C4_Witness ==
    /\ tool = "wait_for_workers" /\ pc = "done"
    /\ "status" \in DOMAIN result
    /\ result.status = "all_complete"
    /\ passes >= 2
    /\ clock > start_time

-----------------------------------------------------------------------------
(* C10: what strip_ansi keeps of a line with carriage returns *)

\* the position of the last carriage return of a line, 0 when it has none
LastCRPos(line) ==
    IF \E n \in 1..Len(line) : line[n] = CR
    THEN CHOOSE n \in 1..Len(line) :
             line[n] = CR /\ \A m \in (n + 1)..Len(line) : line[m] # CR
    ELSE 0

\* what follows the last carriage return of a line (the line, when it has none)
AfterLastCR(line) == SubSeq(line, LastCRPos(line) + 1, Len(line))

\* the segment that ends at the last carriage return
SegmentBeforeLastCR(line) ==
    LET head == SubSeq(line, 1, LastCRPos(line) - 1)
    IN  SubSeq(head, LastCRPos(head) + 1, Len(head))

\* the physical lines strip_ansi goes through
PhysicalLines(s) == Split(RemoveEscapes(s), NL)

\* the text strip_ansi returns when `kept` is what it keeps of each line
Assembled(kept) == Strip(CollapseBlank(Join(kept, NL), 1))

-----------------------------------------------------------------------------
(* C5: which outputs the completion check classifies idle *)

\* the lines of a text that lie in its last WindowLines lines
WindowOf(lines) ==
    {n \in 1..Len(lines) : n > Len(lines) - WindowLines}

\* a prompt line as the claim words it: the bare marker, the marker followed by
\* whitespace, or the hint
ClaimedPrompt(line) ==
    LET c == Strip(line)
    IN  \/ c = <<">">>
        \/ Len(c) >= 2 /\ c[1] = ">" /\ c[2] \in Whitespace
        \/ Contains(c, Hint)

\* a prompt line as the code tests it: the line normalized by itself and
\* trimmed is the bare marker, starts with the marker and a space, or contains
\* the hint
CodePrompt(line) ==
    LET c == Strip(strip_ansi(line))
    IN  \/ c = <<">">>
        \/ Len(c) >= 2 /\ c[1] = ">" /\ c[2] = " "
        \/ \E n \in 1..Len(c) :
               /\ n + Len(Hint) - 1 <= Len(c)
               /\ \A m \in 1..Len(Hint) : c[n + m - 1] = Hint[m]

\* C5 as claimed: idle exactly when one of the last 5 lines of the normalized
\* output is a prompt line.
C5_Original ==
    (pc = "done" /\ tool = "is_done") =>
        LET lines == Split(strip_ansi(text), NL)
        IN  result = (\E n \in WindowOf(lines) : ClaimedPrompt(lines[n]))

\* C5 as amended: idle exactly when one of the last 5 lines of the raw output
\* (trimmed as a whole, split at newlines) is a prompt line once normalized by
\* itself; a prompt line before those 5 raw lines never makes the worker idle
\* and one among them always does.
C5_Theorem ==
    (pc = "done" /\ tool = "is_done") =>
        LET lines == Split(Strip(text), NL)
        IN  result = (\E n \in WindowOf(lines) : CodePrompt(lines[n]))

\* an output with a prompt line before its last 5 raw lines and none among
\* them, classified not idle
C5_Witness ==
    /\ pc = "done" /\ tool = "is_done"
    /\ result = FALSE
    /\ LET lines == Split(Strip(text), NL)
       IN  \E n \in 1..Len(lines) : n \notin WindowOf(lines) /\ CodePrompt(lines[n])

-----------------------------------------------------------------------------
(* C11: the passes before a timeout result *)

\* the call has left its loop by the loop's test: it has returned the timeout
\* result, or failed building it
EndedByDeadline ==
    /\ tool = "wait_for_workers" /\ pc \in {"done", "raised"}
    /\ \/ "status" \in DOMAIN result /\ result.status = "timeout"
       \/ Raised(result) /\ result.raised = "UnboundLocalError"

\* C11: for every timeout value, a call of wait_for_workers that ends by its
\* deadline has performed at least one full pass over the workers (the polling
\* interval being smaller than the timeout) and returns the timeout result,
\* which carries the outputs gathered on the last pass performed.
C11_Original ==
    EndedByDeadline =>
        /\ passes >= 1
        /\ check_interval < timeout_seconds
        /\ pc = "done"
        /\ k = Len(workers)
        /\ result.outputs = outputs

====
